---- MODULE Spec2Model ----
(***************************************************************************)
(* Groth16 verification core of stm32-tests (src/src/utils/groth16.rs).    *)
(*                                                                         *)
(* Curve substrate.  G1, G2 and the pairing target group of BN254 are      *)
(* cyclic groups of the same prime order.  A group element is written by   *)
(* its discrete logarithm k with respect to the group's generator, so      *)
(* point addition is addition of logarithms, scalar multiplication is      *)
(* multiplication, and the bilinear pairing e(k1*g1, k2*g2) = gt^(k1*k2)   *)
(* is the product of the logarithms.  A target-group value (Fqk) is the    *)
(* exponent of gt, so multiplication in Fqk is addition of exponents.      *)
(* The point at infinity is k = 0.  Every point carries the group it       *)
(* belongs to and its coordinate form (projective or affine), as the       *)
(* distinct Rust types G1Projective / G1Affine / G2Projective / G2Affine.  *)
(***************************************************************************)
EXTENDS Integers, Sequences, FiniteSets, TLC

\* Order of G1, G2, GT and of the scalar field Fr: a small prime in place of
\* the 254-bit prime of BN254.
Order == 3

\* Longest ic vector / public input vector of the verification flow (Spec).
MaxIc == 2
MaxInputs == 1

\* Longest ic vector / public input vector of the aggregation flow (SpecAgg).
AggMaxIc == 3
AggMaxInputs == 3

\* Most calls of prepare on one key (SpecPrep).
MaxPrepares == 3

VARIABLES vk, pvk, prepares, proof, public_inputs, g_ic, pairings, result, pc

\* The converter (src/circom/converter): the JSON documents it reads and the
\* vk_proof.rs it writes; one JSON point and the expression emitted for it.
VARIABLES json, generated, point_json, point_rust

\* The demo (src/src/bin/groth16_demo.rs): what sample_proof() returns, the
\* level of the button pin, the presses made and verifications run so far,
\* the branch of the match taken last, and the presses (by number) that took
\* the firmware out of its "while button.is_high() {}" loop.
VARIABLES sample, button, presses, verifications, reported, served

\* Verification calls in progress side by side on one prepared key, and the
\* number of verify_proof_prepared calls finished since the key was prepared.
VARIABLES calls, verified

coreVars == <<vk, pvk, prepares, proof, public_inputs, g_ic, pairings, result, pc>>

importerVars == <<json, generated, point_json, point_rust>>

demoVars == <<sample, button, presses, verifications, reported, served>>

otherVars == <<importerVars, demoVars, calls, verified>>

vars == <<coreVars, otherVars>>

----------------------------------------------------------------------------
\* Curve arithmetic substrate (ark_bn254 / ark_ec)

Fr == 0 .. (Order - 1)

G1Projective == [g : {"G1"}, form : {"projective"}, k : Fr]
G2Projective == [g : {"G2"}, form : {"projective"}, k : Fr]

G1(k) == [g |-> "G1", form |-> "projective", k |-> k]
G2(k) == [g |-> "G2", form |-> "projective", k |-> k]

\* Placeholder of a point slot that holds no value (before a call, or after a
\* panic).
NoPoint == [g |-> "none", form |-> "none", k |-> 0]

into_affine(p) == [p EXCEPT !.form = "affine"]

into_projective(p) == [p EXCEPT !.form = "projective"]

neg(p) == [p EXCEPT !.k = (Order - p.k) % Order]

\* AffineCurve::mul: affine point times scalar, result in projective form.
mul(p, s) == [g |-> p.g, form |-> "projective", k |-> (p.k * s) % Order]

\* AddAssign on a projective accumulator.
add_assign(acc, q) == [acc EXCEPT !.k = (acc.k + q.k) % Order]

\* Bn254::pairing(G1Affine, G2Affine) -> Fqk
pairing(p, q) == (p.k * q.k) % Order

\* MulAssign on Fqk
mul_assign(x, y) == (x + y) % Order

SeqsUpTo(S, n) == UNION {[1 .. m -> S] : m \in 0 .. n}

----------------------------------------------------------------------------
\* Vk::prepare

\* prepare that stores gamma without negating it.
prepare_gamma_not_negated(key) ==
    LET alpha_affine == into_affine(key.alpha_g1)
        beta_affine == into_affine(key.beta_g2)
    IN [alpha_g1 |-> alpha_affine,
        beta_g2 |-> beta_affine,
        gamma_g2_neg |-> into_affine(key.gamma_g2),
        delta_g2_neg |-> neg(into_affine(key.delta_g2)),
        gamma_abc_g1 |-> [i \in 1 .. Len(key.ic) |-> into_affine(key.ic[i])],
        e_alpha_beta |-> pairing(alpha_affine, beta_affine)]

\* prepare that stores delta without negating it.
prepare_delta_not_negated(key) ==
    LET alpha_affine == into_affine(key.alpha_g1)
        beta_affine == into_affine(key.beta_g2)
    IN [alpha_g1 |-> alpha_affine,
        beta_g2 |-> beta_affine,
        gamma_g2_neg |-> neg(into_affine(key.gamma_g2)),
        delta_g2_neg |-> into_affine(key.delta_g2),
        gamma_abc_g1 |-> [i \in 1 .. Len(key.ic) |-> into_affine(key.ic[i])],
        e_alpha_beta |-> pairing(alpha_affine, beta_affine)]

\* prepare that pairs alpha with gamma instead of beta.
prepare_pairing_alpha_gamma(key) ==
    LET alpha_affine == into_affine(key.alpha_g1)
        beta_affine == into_affine(key.beta_g2)
    IN [alpha_g1 |-> alpha_affine,
        beta_g2 |-> beta_affine,
        gamma_g2_neg |-> neg(into_affine(key.gamma_g2)),
        delta_g2_neg |-> neg(into_affine(key.delta_g2)),
        gamma_abc_g1 |-> [i \in 1 .. Len(key.ic) |-> into_affine(key.ic[i])],
        e_alpha_beta |-> pairing(alpha_affine, into_affine(key.gamma_g2))]

prepare(key) ==
    LET alpha_affine == into_affine(key.alpha_g1)
        beta_affine == into_affine(key.beta_g2)
    IN [alpha_g1 |-> alpha_affine,
        beta_g2 |-> beta_affine,
        gamma_g2_neg |-> neg(into_affine(key.gamma_g2)),
        delta_g2_neg |-> neg(into_affine(key.delta_g2)),
        gamma_abc_g1 |-> [i \in 1 .. Len(key.ic) |-> into_affine(key.ic[i])],
        e_alpha_beta |-> pairing(alpha_affine, beta_affine)]

\* A PreparedVk slot before prepare has run.
NoPvk ==
    [alpha_g1 |-> NoPoint, beta_g2 |-> NoPoint, gamma_g2_neg |-> NoPoint,
     delta_g2_neg |-> NoPoint, gamma_abc_g1 |-> <<>>, e_alpha_beta |-> 0]

----------------------------------------------------------------------------
\* aggregate_inputs

Returned(p) == [panic |-> FALSE, value |-> p]
Panicked == [panic |-> TRUE, value |-> NoPoint]

\* A loop that zips the inputs with gamma_abc_g1 without the skip(1).
RECURSIVE AggregateLoopNoSkip(_, _, _, _)
AggregateLoopNoSkip(acc, i, prep_vk, inputs) ==
    IF i > Len(inputs) \/ i + 1 > Len(prep_vk.gamma_abc_g1)
    THEN acc
    ELSE AggregateLoopNoSkip(add_assign(acc, mul(prep_vk.gamma_abc_g1[i], inputs[i])),
                             i + 1, prep_vk, inputs)

\* A loop that adds each ic point without multiplying it by its input.
RECURSIVE AggregateLoopUnweighted(_, _, _, _)
AggregateLoopUnweighted(acc, i, prep_vk, inputs) ==
    IF i > Len(inputs) \/ i + 1 > Len(prep_vk.gamma_abc_g1)
    THEN acc
    ELSE AggregateLoopUnweighted(add_assign(acc, into_projective(prep_vk.gamma_abc_g1[i + 1])),
                                 i + 1, prep_vk, inputs)

\* A loop that ends after the first input.
RECURSIVE AggregateLoopFirstOnly(_, _, _, _)
AggregateLoopFirstOnly(acc, i, prep_vk, inputs) ==
    IF i > 1 \/ i > Len(inputs) \/ i + 1 > Len(prep_vk.gamma_abc_g1)
    THEN acc
    ELSE AggregateLoopFirstOnly(add_assign(acc, mul(prep_vk.gamma_abc_g1[i + 1], inputs[i])),
                                i + 1, prep_vk, inputs)

\* A loop that assigns each weighted term to the accumulator instead of
\* adding it.
RECURSIVE AggregateLoopOverwrite(_, _, _, _)
AggregateLoopOverwrite(acc, i, prep_vk, inputs) ==
    IF i > Len(inputs) \/ i + 1 > Len(prep_vk.gamma_abc_g1)
    THEN acc
    ELSE AggregateLoopOverwrite(mul(prep_vk.gamma_abc_g1[i + 1], inputs[i]),
                                i + 1, prep_vk, inputs)

\* The zip of public_inputs with gamma_abc_g1.iter().skip(1): element i of
\* the inputs (1-based here) meets element i + 1 of gamma_abc_g1; the zip
\* ends with the shorter of the two.
RECURSIVE AggregateLoop(_, _, _, _)
AggregateLoop(acc, i, prep_vk, inputs) ==
    IF i > Len(inputs) \/ i + 1 > Len(prep_vk.gamma_abc_g1)
    THEN acc
    ELSE AggregateLoop(add_assign(acc, mul(prep_vk.gamma_abc_g1[i + 1], inputs[i])),
                       i + 1, prep_vk, inputs)

\* Indexing gamma_abc_g1[0] of an empty vector panics.
aggregate_inputs(prep_vk, inputs) ==
    IF (Len(inputs) + 1) # Len(prep_vk.gamma_abc_g1)
    THEN IF Len(prep_vk.gamma_abc_g1) = 0
         THEN Panicked
         ELSE Returned(into_projective(prep_vk.gamma_abc_g1[1]))
    ELSE IF Len(prep_vk.gamma_abc_g1) = 0
         THEN Panicked
         ELSE Returned(AggregateLoop(into_projective(prep_vk.gamma_abc_g1[1]),
                                     1, prep_vk, inputs))

----------------------------------------------------------------------------
\* verify_proof_prepared

\* A check that pairs proof.a with gamma_neg and the aggregate with proof.b.
verify_proof_prepared_a_with_gamma(prep_vk, prf, inputs) ==
    LET agg == aggregate_inputs(prep_vk, inputs)
    IN IF agg.panic
       THEN [result |-> "Panic", g_ic |-> NoPoint, pairings |-> 0]
       ELSE LET proof_a == into_affine(prf.a)
                proof_b == into_affine(prf.b)
                proof_c == into_affine(prf.c)
                g_ic_affine == into_affine(agg.value)
                e_a_b == pairing(g_ic_affine, proof_b)
                e_ic_gamma == pairing(proof_a, prep_vk.gamma_g2_neg)
                e_c_delta == pairing(proof_c, prep_vk.delta_g2_neg)
                lhs == mul_assign(mul_assign(e_a_b, e_ic_gamma), e_c_delta)
            IN [result |-> IF lhs = prep_vk.e_alpha_beta THEN "Ok" ELSE "Err",
                g_ic |-> agg.value,
                pairings |-> 3]

\* A check that leaves e(c, delta_neg) out of the product.
verify_proof_prepared_without_c(prep_vk, prf, inputs) ==
    LET agg == aggregate_inputs(prep_vk, inputs)
    IN IF agg.panic
       THEN [result |-> "Panic", g_ic |-> NoPoint, pairings |-> 0]
       ELSE LET e_a_b == pairing(into_affine(prf.a), into_affine(prf.b))
                e_ic_gamma == pairing(into_affine(agg.value), prep_vk.gamma_g2_neg)
                lhs == mul_assign(e_a_b, e_ic_gamma)
            IN [result |-> IF lhs = prep_vk.e_alpha_beta THEN "Ok" ELSE "Err",
                g_ic |-> agg.value,
                pairings |-> 3]

\* A check that leaves e(g_ic, gamma_neg) out of the product.
verify_proof_prepared_without_ic(prep_vk, prf, inputs) ==
    LET agg == aggregate_inputs(prep_vk, inputs)
    IN IF agg.panic
       THEN [result |-> "Panic", g_ic |-> NoPoint, pairings |-> 0]
       ELSE LET e_a_b == pairing(into_affine(prf.a), into_affine(prf.b))
                e_c_delta == pairing(into_affine(prf.c), prep_vk.delta_g2_neg)
                lhs == mul_assign(e_a_b, e_c_delta)
            IN [result |-> IF lhs = prep_vk.e_alpha_beta THEN "Ok" ELSE "Err",
                g_ic |-> agg.value,
                pairings |-> 3]

\* The outcome of one call: the Result it returns ("Ok" | "Err", or "Panic"
\* when the call unwinds), the aggregate it computed, and the number of
\* pairings it evaluated.
verify_proof_prepared(prep_vk, prf, inputs) ==
    LET agg == aggregate_inputs(prep_vk, inputs)
    IN IF agg.panic
       THEN [result |-> "Panic", g_ic |-> NoPoint, pairings |-> 0]
       ELSE LET proof_a == into_affine(prf.a)
                proof_b == into_affine(prf.b)
                proof_c == into_affine(prf.c)
                g_ic_affine == into_affine(agg.value)
                e_a_b == pairing(proof_a, proof_b)
                e_ic_gamma == pairing(g_ic_affine, prep_vk.gamma_g2_neg)
                e_c_delta == pairing(proof_c, prep_vk.delta_g2_neg)
                lhs == mul_assign(mul_assign(e_a_b, e_ic_gamma), e_c_delta)
            IN [result |-> IF lhs = prep_vk.e_alpha_beta THEN "Ok" ELSE "Err",
                g_ic |-> agg.value,
                pairings |-> 3]

\* verify_proof: the key is prepared on every call.
verify_proof(key, prf, inputs) ==
    LET prep == prepare(key)
    IN verify_proof_prepared(prep, prf, inputs)

----------------------------------------------------------------------------
\* State machine

NoProof == [a |-> NoPoint, b |-> NoPoint, c |-> NoPoint]

Proofs == [a : G1Projective, b : G2Projective, c : G1Projective]

Keys(maxIc) ==
    [alpha_g1 : G1Projective, beta_g2 : G2Projective, gamma_g2 : G2Projective,
     delta_g2 : G2Projective, ic : SeqsUpTo(G1Projective, maxIc)]

\* Keys of the aggregation flow: only ic varies.
AggKeys ==
    [alpha_g1 : {G1(1)}, beta_g2 : {G2(1)}, gamma_g2 : {G2(1)},
     delta_g2 : {G2(1)}, ic : SeqsUpTo(G1Projective, AggMaxIc)]

Idle ==
    /\ proof = NoProof
    /\ public_inputs = <<>>
    /\ g_ic = NoPoint
    /\ pairings = 0
    /\ result = "none"

\* The converter has not run and no expression has been emitted.
ImporterOff ==
    /\ json = <<>>
    /\ generated = <<>>
    /\ point_json = <<>>
    /\ point_rust = <<>>

\* The demo is not running.
DemoOff ==
    /\ sample = <<>>
    /\ button = "high"
    /\ presses = 0
    /\ verifications = 0
    /\ reported = "none"
    /\ served = <<>>

\* No side-by-side calls.
CallsOff ==
    /\ calls = <<>>
    /\ verified = 0

Init ==
    /\ vk \in Keys(MaxIc)
    /\ pvk = NoPvk
    /\ prepares = 0
    /\ pc = "start"
    /\ Idle
    /\ ImporterOff
    /\ DemoOff
    /\ CallsOff

InitAgg ==
    /\ vk \in AggKeys
    /\ pvk = NoPvk
    /\ prepares = 0
    /\ pc = "start"
    /\ Idle
    /\ ImporterOff
    /\ DemoOff
    /\ CallsOff

\* A prepare that negates gamma and delta in the key itself.
PrepareCallInPlace ==
    /\ pvk' = prepare(vk)
    /\ vk' = [vk EXCEPT !.gamma_g2 = neg(@), !.delta_g2 = neg(@)]

\* vk.prepare(): prepare borrows the key (&self) and returns a new PreparedVk.
PrepareCall ==
    /\ pvk' = prepare(vk)
    /\ vk' = vk

\* let pvk = vk.prepare();
Prepare ==
    /\ pc = "start"
    /\ PrepareCall
    /\ prepares' = 1
    /\ pc' = "ready"
    /\ UNCHANGED <<proof, public_inputs, g_ic, pairings, result>>
    /\ UNCHANGED otherVars

\* A further call vk.prepare() on the same key, as verify_proof makes on
\* each of its calls; the value it returns takes the place of the last one.
PrepareAgain ==
    /\ pc = "ready"
    /\ prepares < MaxPrepares
    /\ PrepareCall
    /\ prepares' = prepares + 1
    /\ pc' = "ready"
    /\ UNCHANGED <<proof, public_inputs, g_ic, pairings, result>>
    /\ UNCHANGED otherVars

\* One call verify_proof_prepared(&pvk, &proof, &public_inputs).
VerifyProofPrepared ==
    /\ pc = "ready"
    /\ \E prf \in Proofs, inputs \in SeqsUpTo(Fr, MaxInputs) :
          LET out == verify_proof_prepared(pvk, prf, inputs)
          IN /\ proof' = prf
             /\ public_inputs' = inputs
             /\ g_ic' = out.g_ic
             /\ pairings' = out.pairings
             /\ result' = out.result
    /\ pc' = "done"
    /\ UNCHANGED <<vk, pvk, prepares>>
    /\ UNCHANGED otherVars

\* One call aggregate_inputs(&pvk, &public_inputs).
AggregateInputs ==
    /\ pc = "ready"
    /\ \E inputs \in SeqsUpTo(Fr, AggMaxInputs) :
          LET agg == aggregate_inputs(pvk, inputs)
          IN /\ public_inputs' = inputs
             /\ g_ic' = agg.value
             /\ result' = IF agg.panic THEN "Panic" ELSE "Returned"
    /\ pc' = "aggregated"
    /\ UNCHANGED <<vk, pvk, prepares, proof, pairings>>
    /\ UNCHANGED otherVars

\* The call's locals go out of scope; the prepared key stays.
Return ==
    /\ pc \in {"done", "aggregated", "done_unprepared"}
    /\ proof' = NoProof
    /\ public_inputs' = <<>>
    /\ g_ic' = NoPoint
    /\ pairings' = 0
    /\ result' = "none"
    /\ pc' = "ready"
    /\ UNCHANGED <<vk, pvk, prepares>>
    /\ UNCHANGED otherVars

----------------------------------------------------------------------------
\* The converter: src/circom/converter/src/main.rs

\* y of the point (1, q - 2), the inverse of the generator (1, 2) of G1
\* (q the base field modulus).
QMinus2 == "21888242871839275222246405745257275088696311157297823662689037894645226208581"

\* Decimal strings met in the JSON documents, and one string that is no number.
CoordStrings == {"0", "1", "2", QMinus2, "x"}

\* A Vk slot before the key is built.
NoKey ==
    [alpha_g1 |-> NoPoint, beta_g2 |-> NoPoint, gamma_g2 |-> NoPoint,
     delta_g2 |-> NoPoint, ic |-> <<>>]

\* The Rust expressions the converter writes, by constructor and arguments.
ZeroG1 == [ctor |-> "G1Projective::zero", x |-> "", y |-> ""]
AffineG1(x, y) == [ctor |-> "G1Affine::new", x |-> x, y |-> y]
ZeroG2 == [ctor |-> "G2Projective::zero", x |-> <<"", "">>, y |-> <<"", "">>]
AffineG2(x, y) == [ctor |-> "G2Affine::new", x |-> x, y |-> y]
FrFromStr(x) == [ctor |-> "Fr::from_str", x |-> x]

\* The converter unwinds on an index past the end of a Vec.
IndexPanicG1 == [ctor |-> "panic", x |-> "", y |-> ""]
IndexPanicG2 == [ctor |-> "panic", x |-> <<"", "">>, y |-> <<"", "">>]

\* A conversion that takes every z other than "1" for the point at infinity.
g1_to_rust_affine_only_for_one(p) ==
    IF Len(p) >= 3 /\ p[3] # "1"
    THEN ZeroG1
    ELSE IF Len(p) < 2
         THEN IndexPanicG1
         ELSE AffineG1(p[1], p[2])

\* A conversion that never emits the point at infinity.
g1_to_rust_ignores_z(p) ==
    IF Len(p) < 2
    THEN IndexPanicG1
    ELSE AffineG1(p[1], p[2])

g1_to_rust(p) ==
    IF Len(p) >= 3 /\ p[3] = "0"
    THEN ZeroG1
    ELSE IF Len(p) < 2
         THEN IndexPanicG1
         ELSE AffineG1(p[1], p[2])

\* A conversion that takes one zero component of z for the point at infinity.
g2_to_rust_either_zero(p) ==
    IF Len(p) >= 3 /\ (p[3][1] = "0" \/ p[3][2] = "0")
    THEN ZeroG2
    ELSE IF Len(p) < 2
         THEN IndexPanicG2
         ELSE AffineG2(<<p[1][1], p[1][2]>>, <<p[2][1], p[2][2]>>)

\* Every inner Vec has its two components here, so only the outer index can
\* run past the end.
g2_to_rust(p) ==
    IF Len(p) >= 3 /\ p[3][1] = "0" /\ p[3][2] = "0"
    THEN ZeroG2
    ELSE IF Len(p) < 2
         THEN IndexPanicG2
         ELSE AffineG2(<<p[1][1], p[1][2]>>, <<p[2][1], p[2][2]>>)

fr_to_rust(x) == FrFromStr(x)

\* JSON G1 points: Vec<String> of up to three strings.
JsonG1Points == SeqsUpTo(CoordStrings, 3)

\* JSON G2 points: two or three pairs of strings.
JsonG2Points ==
    UNION {[1 .. m -> [1 .. 2 -> {"0", "1", "2"}]] : m \in 2 .. 3}

InitConvert ==
    /\ \/ pc = "g1" /\ point_json \in JsonG1Points
       \/ pc = "g2" /\ point_json \in JsonG2Points
    /\ point_rust = <<>>
    /\ json = <<>>
    /\ generated = <<>>
    /\ vk = NoKey
    /\ pvk = NoPvk
    /\ prepares = 0
    /\ Idle
    /\ DemoOff
    /\ CallsOff

\* One call g1_to_rust(&p).
G1ToRust ==
    /\ pc = "g1"
    /\ point_rust' = g1_to_rust(point_json)
    /\ pc' = "g1_done"
    /\ UNCHANGED <<vk, pvk, prepares, proof, public_inputs, g_ic, pairings, result>>
    /\ UNCHANGED <<json, generated, point_json, demoVars, calls, verified>>

\* One call g2_to_rust(&p).
G2ToRust ==
    /\ pc = "g2"
    /\ point_rust' = g2_to_rust(point_json)
    /\ pc' = "g2_done"
    /\ UNCHANGED <<vk, pvk, prepares, proof, public_inputs, g_ic, pairings, result>>
    /\ UNCHANGED <<json, generated, point_json, demoVars, calls, verified>>

NextConvert == G1ToRust \/ G2ToRust

\* A format! call whose gamma and delta arguments stand in each other's place.
converter_main_gamma_delta_swapped(doc) ==
    [alpha_g1 |-> g1_to_rust(doc.vk.vk_alpha_1),
     beta_g2 |-> g2_to_rust(doc.vk.vk_beta_2),
     gamma_g2 |-> g2_to_rust(doc.vk.vk_delta_2),
     delta_g2 |-> g2_to_rust(doc.vk.vk_gamma_2),
     ic |-> [i \in 1 .. Len(doc.vk.IC) |-> g1_to_rust(doc.vk.IC[i])],
     a |-> g1_to_rust(doc.proof.pi_a),
     b |-> g2_to_rust(doc.proof.pi_b),
     c |-> g1_to_rust(doc.proof.pi_c),
     public_inputs |-> [i \in 1 .. Len(doc.public) |-> fr_to_rust(doc.public[i])]]

\* main: the three documents are read, every point and scalar is converted
\* in place and in order, and the text of vk_proof.rs is written.
converter_main(doc) ==
    [alpha_g1 |-> g1_to_rust(doc.vk.vk_alpha_1),
     beta_g2 |-> g2_to_rust(doc.vk.vk_beta_2),
     gamma_g2 |-> g2_to_rust(doc.vk.vk_gamma_2),
     delta_g2 |-> g2_to_rust(doc.vk.vk_delta_2),
     ic |-> [i \in 1 .. Len(doc.vk.IC) |-> g1_to_rust(doc.vk.IC[i])],
     a |-> g1_to_rust(doc.proof.pi_a),
     b |-> g2_to_rust(doc.proof.pi_b),
     c |-> g1_to_rust(doc.proof.pi_c),
     public_inputs |-> [i \in 1 .. Len(doc.public) |-> fr_to_rust(doc.public[i])]]

\* Coordinates of the generator of G2 as vk_proof.rs holds them.
G2GenX ==
    <<"10857046999023057135944570762232829481370756359578518086990519993285655852781",
      "11559732032986387107991004021392285783925812861821192530917403151452391805634">>
G2GenY ==
    <<"8495653923123431417604973247489272438418190587263600148770280649306958101930",
      "4082367875863433681332203403145435568316851327593401208105741076214120093531">>

\* The value of an emitted G1 expression when the firmware runs it:
\* G1Projective::zero() is the identity, G1Affine::new(1, 2) the generator
\* and G1Affine::new(1, q - 2) its inverse.  Other coordinates give no point
\* of the group.
EvalG1(expr) ==
    IF expr = ZeroG1 THEN G1(0)
    ELSE IF expr = AffineG1("1", "2") THEN G1(1)
    ELSE IF expr = AffineG1("1", QMinus2) THEN G1(Order - 1)
    ELSE NoPoint

EvalG2(expr) ==
    IF expr = ZeroG2 THEN G2(0)
    ELSE IF expr = AffineG2(G2GenX, G2GenY) THEN G2(1)
    ELSE NoPoint

\* Fr::from_str(x).unwrap() on the decimal strings of the model; -1 stands
\* for the unwrap of a string that is no number.
EvalFr(expr) ==
    IF expr.x = "0" THEN 0
    ELSE IF expr.x = "1" THEN 1 % Order
    ELSE IF expr.x = "2" THEN 2 % Order
    ELSE -1

\* vk_proof::verification_key() of a generated file
verification_key(file) ==
    [alpha_g1 |-> EvalG1(file.alpha_g1),
     beta_g2 |-> EvalG2(file.beta_g2),
     gamma_g2 |-> EvalG2(file.gamma_g2),
     delta_g2 |-> EvalG2(file.delta_g2),
     ic |-> [i \in 1 .. Len(file.ic) |-> EvalG1(file.ic[i])]]

\* vk_proof::sample_proof() of a generated file
sample_proof(file) ==
    [proof |-> [a |-> EvalG1(file.a), b |-> EvalG2(file.b), c |-> EvalG1(file.c)],
     public_inputs |-> [i \in 1 .. Len(file.public_inputs) |-> EvalFr(file.public_inputs[i])]]

\* Longest IC array of the key document (SpecImport).
ImpMaxIc == 3

\* JSON encodings of G1 points as snarkjs writes them: the generator, its
\* inverse, and the point at infinity with z = "0".
JsonG1Valid ==
    {<<"1", "2", "1">>, <<"1", QMinus2, "1">>, <<"0", "1", "0">>, <<"1", "2", "0">>}

JsonG2Gen == <<G2GenX, G2GenY, <<"1", "0">> >>

Documents ==
    [vk : [vk_alpha_1 : {<<"1", "2", "1">>},
           vk_beta_2 : {JsonG2Gen},
           vk_gamma_2 : {JsonG2Gen},
           vk_delta_2 : {JsonG2Gen},
           IC : UNION {[1 .. m -> JsonG1Valid] : m \in 1 .. ImpMaxIc}],
     proof : [pi_a : {<<"1", "2", "1">>},
              pi_b : {JsonG2Gen},
              pi_c : {<<"1", "2", "1">>}],
     public : SeqsUpTo({"1", "2"}, 1)]

InitImport ==
    /\ json \in Documents
    /\ generated = <<>>
    /\ point_json = <<>>
    /\ point_rust = <<>>
    /\ pc = "import"
    /\ vk = NoKey
    /\ pvk = NoPvk
    /\ prepares = 0
    /\ Idle
    /\ DemoOff
    /\ CallsOff

\* One run of the converter.
ConverterMain ==
    /\ pc = "import"
    /\ generated' = converter_main(json)
    /\ pc' = "generated"
    /\ UNCHANGED <<vk, pvk, prepares, proof, public_inputs, g_ic, pairings, result>>
    /\ UNCHANGED <<json, point_json, point_rust, demoVars, calls, verified>>

\* let vk_data = vk_proof::verification_key(); let vk = groth16::Vk { .. };
LoadKey ==
    /\ pc = "generated"
    /\ vk' = verification_key(generated)
    /\ pc' = "start"
    /\ UNCHANGED <<pvk, prepares, proof, public_inputs, g_ic, pairings, result>>
    /\ UNCHANGED otherVars

NextImport == ConverterMain \/ LoadKey \/ Prepare \/ AggregateInputs \/ Return


----------------------------------------------------------------------------
\* verify_proof next to verify_proof_prepared on one key

\* Most verify_proof_prepared calls counted after the key was prepared.
MaxVerified == 2

\* Keys of this flow: gamma, delta and ic vary.
VpKeys ==
    [alpha_g1 : {G1(1)}, beta_g2 : {G2(1)}, gamma_g2 : G2Projective,
     delta_g2 : G2Projective, ic : SeqsUpTo(G1Projective, MaxIc)]

InitVp ==
    /\ vk \in VpKeys
    /\ pvk = NoPvk
    /\ prepares = 0
    /\ pc = "start"
    /\ Idle
    /\ ImporterOff
    /\ DemoOff
    /\ CallsOff

\* A call that leaves its aggregate in the first ic slot of the prepared key.
VerifyProofPreparedInPlace ==
    /\ pc = "ready"
    /\ verified < MaxVerified
    /\ \E prf \in Proofs, inputs \in SeqsUpTo(Fr, MaxInputs) :
          LET out == verify_proof_prepared(pvk, prf, inputs)
          IN /\ proof' = prf
             /\ public_inputs' = inputs
             /\ g_ic' = out.g_ic
             /\ pairings' = out.pairings
             /\ result' = out.result
             /\ pvk' = IF out.result = "Panic"
                       THEN pvk
                       ELSE [pvk EXCEPT !.gamma_abc_g1[1] = into_affine(out.g_ic)]
    /\ verified' = verified + 1
    /\ pc' = "done"
    /\ UNCHANGED <<vk, prepares>>
    /\ UNCHANGED <<importerVars, demoVars, calls>>

\* One call verify_proof_prepared(&pvk, &proof, &public_inputs), counted.
VerifyProofPreparedCounted ==
    /\ pc = "ready"
    /\ verified < MaxVerified
    /\ \E prf \in Proofs, inputs \in SeqsUpTo(Fr, MaxInputs) :
          LET out == verify_proof_prepared(pvk, prf, inputs)
          IN /\ proof' = prf
             /\ public_inputs' = inputs
             /\ g_ic' = out.g_ic
             /\ pairings' = out.pairings
             /\ result' = out.result
    /\ verified' = verified + 1
    /\ pc' = "done"
    /\ UNCHANGED <<vk, pvk, prepares>>
    /\ UNCHANGED <<importerVars, demoVars, calls>>

\* One call verify_proof(&vk, &proof, &public_inputs): the PreparedVk it
\* builds is a local of the call.
VerifyProof ==
    /\ pc = "ready"
    /\ \E prf \in Proofs, inputs \in SeqsUpTo(Fr, MaxInputs) :
          LET out == verify_proof(vk, prf, inputs)
          IN /\ proof' = prf
             /\ public_inputs' = inputs
             /\ g_ic' = out.g_ic
             /\ pairings' = out.pairings
             /\ result' = out.result
    /\ pc' = "done_unprepared"
    /\ UNCHANGED <<vk, pvk, prepares>>
    /\ UNCHANGED otherVars

NextVp == Prepare \/ VerifyProofPreparedCounted \/ VerifyProof \/ Return

----------------------------------------------------------------------------
\* Several calls of verify_proof_prepared on one &PreparedVk, each advancing
\* through its statements: the aggregation (line 112), the three pairings and
\* their product (lines 115-135), the comparison (lines 138-142).

\* Number of calls that run side by side.
NumCallers == 2

Callers == 1 .. NumCallers

IdleCall ==
    [stage |-> "idle", proof |-> NoProof, public_inputs |-> <<>>, g_ic |-> NoPoint,
     lhs |-> 0, pairings |-> 0, compares |-> 0, result |-> "none"]

ConcKeys ==
    [alpha_g1 : {G1(1)}, beta_g2 : {G2(1)}, gamma_g2 : {G2(1)}, delta_g2 : {G2(1)},
     ic : {<<>>} \cup [1 .. 2 -> G1Projective]]

ConcProofs == [a : {G1(1)}, b : G2Projective, c : {G1(1)}]

ConcInputs == SeqsUpTo(Fr, 1)

InitConc ==
    /\ vk \in ConcKeys
    /\ pvk = NoPvk
    /\ prepares = 0
    /\ pc = "start"
    /\ Idle
    /\ ImporterOff
    /\ DemoOff
    /\ calls = [c \in Callers |-> IdleCall]
    /\ verified = 0

\* An aggregation that accumulates in the first ic slot of the shared key.
CallAggregateInPlace(c) ==
    /\ pc = "ready"
    /\ calls[c].stage = "idle"
    /\ \E prf \in ConcProofs, inputs \in ConcInputs :
          LET agg == aggregate_inputs(pvk, inputs)
          IN /\ calls' = [calls EXCEPT ![c] =
                   [@ EXCEPT !.proof = prf,
                             !.public_inputs = inputs,
                             !.g_ic = agg.value,
                             !.stage = IF agg.panic THEN "done" ELSE "aggregated",
                             !.result = IF agg.panic THEN "Panic" ELSE "none"]]
             /\ pvk' = IF agg.panic
                       THEN pvk
                       ELSE [pvk EXCEPT !.gamma_abc_g1[1] = into_affine(agg.value)]
    /\ UNCHANGED <<vk, prepares, proof, public_inputs, g_ic, pairings, result, pc>>
    /\ UNCHANGED <<importerVars, demoVars, verified>>

\* The call is entered with its own proof and inputs and aggregates them:
\* let g_ic = aggregate_inputs(pvk, public_inputs);
CallAggregate(c) ==
    /\ pc = "ready"
    /\ calls[c].stage = "idle"
    /\ \E prf \in ConcProofs, inputs \in ConcInputs :
          LET agg == aggregate_inputs(pvk, inputs)
          IN calls' = [calls EXCEPT ![c] =
                [@ EXCEPT !.proof = prf,
                          !.public_inputs = inputs,
                          !.g_ic = agg.value,
                          !.stage = IF agg.panic THEN "done" ELSE "aggregated",
                          !.result = IF agg.panic THEN "Panic" ELSE "none"]]
    /\ UNCHANGED coreVars
    /\ UNCHANGED <<importerVars, demoVars, verified>>

\* The three pairings and their product lhs.
CallPairings(c) ==
    /\ calls[c].stage = "aggregated"
    /\ LET proof_a == into_affine(calls[c].proof.a)
           proof_b == into_affine(calls[c].proof.b)
           proof_c == into_affine(calls[c].proof.c)
           g_ic_affine == into_affine(calls[c].g_ic)
           e_a_b == pairing(proof_a, proof_b)
           e_ic_gamma == pairing(g_ic_affine, pvk.gamma_g2_neg)
           e_c_delta == pairing(proof_c, pvk.delta_g2_neg)
       IN calls' = [calls EXCEPT ![c] =
             [@ EXCEPT !.lhs = mul_assign(mul_assign(e_a_b, e_ic_gamma), e_c_delta),
                       !.pairings = @ + 3,
                       !.stage = "paired"]]
    /\ UNCHANGED coreVars
    /\ UNCHANGED <<importerVars, demoVars, verified>>

\* A comparison that computes the pairings once more before it gives Err.
CallCompareRetry(c) ==
    /\ calls[c].stage = "paired"
    /\ calls' = [calls EXCEPT ![c] =
          [@ EXCEPT !.compares = @ + 1,
                    !.result = IF calls[c].lhs = pvk.e_alpha_beta THEN "Ok"
                               ELSE IF calls[c].compares = 0 THEN "none" ELSE "Err",
                    !.stage = IF calls[c].lhs # pvk.e_alpha_beta /\ calls[c].compares = 0
                              THEN "aggregated" ELSE "done"]]
    /\ UNCHANGED coreVars
    /\ UNCHANGED <<importerVars, demoVars, verified>>

\* if lhs == pvk.e_alpha_beta { Ok(()) } else { Err(()) }
CallCompare(c) ==
    /\ calls[c].stage = "paired"
    /\ calls' = [calls EXCEPT ![c] =
          [@ EXCEPT !.compares = @ + 1,
                    !.result = IF calls[c].lhs = pvk.e_alpha_beta THEN "Ok" ELSE "Err",
                    !.stage = "done"]]
    /\ UNCHANGED coreVars
    /\ UNCHANGED <<importerVars, demoVars, verified>>

\* The caller has the Result; the locals of the call are dropped.
CallReturn(c) ==
    /\ calls[c].stage = "done"
    /\ calls' = [calls EXCEPT ![c] = IdleCall]
    /\ UNCHANGED coreVars
    /\ UNCHANGED <<importerVars, demoVars, verified>>

NextConc ==
    \/ Prepare
    \/ \E c \in Callers : CallAggregate(c)
    \/ \E c \in Callers : CallPairings(c)
    \/ \E c \in Callers : CallCompare(c)
    \/ \E c \in Callers : CallReturn(c)

----------------------------------------------------------------------------
\* The demo firmware (src/src/bin/groth16_demo.rs): the key is prepared once,
\* then each turn of the loop waits for the button, verifies the sample
\* proof, blinks the outcome and waits for the release.

\* Presses of the button the environment makes.
MaxPresses == 3

\* The key of vk_proof::verification_key(): one or two ic entries.
DemoKeys ==
    [alpha_g1 : {G1(1)}, beta_g2 : {G2(1)}, gamma_g2 : {G2(1)}, delta_g2 : {G2(1)},
     ic : [1 .. 1 -> G1Projective] \cup [1 .. 2 -> G1Projective]]

\* What vk_proof::sample_proof() returns.
DemoSamples ==
    [proof : [a : {G1(1)}, b : G2Projective, c : G1Projective],
     public_inputs : SeqsUpTo(Fr, 1)]

InitDemo ==
    /\ vk \in DemoKeys
    /\ pvk = NoPvk
    /\ prepares = 0
    /\ pc = "start"
    /\ Idle
    /\ ImporterOff
    /\ CallsOff
    /\ sample \in DemoSamples
    /\ button = "high"
    /\ presses = 0
    /\ verifications = 0
    /\ reported = "none"
    /\ served = <<>>

\* The user pushes the button (the pin is pulled up; pressed reads low).
ButtonPress ==
    /\ button = "high"
    /\ presses < MaxPresses
    /\ button' = "low"
    /\ presses' = presses + 1
    /\ UNCHANGED <<coreVars, importerVars, calls, verified>>
    /\ UNCHANGED <<sample, verifications, reported, served>>

\* The user lets the button go. The wait loop reads the pin far more often
\* than a finger moves: a press made while it polls is seen before it ends.
ButtonRelease ==
    /\ button = "low"
    /\ pc # "ready"
    /\ button' = "high"
    /\ UNCHANGED <<coreVars, importerVars, calls, verified>>
    /\ UNCHANGED <<sample, presses, verifications, reported, served>>

\* while button.is_high() {} is left: the pin reads low.
DemoWaitPress ==
    /\ pc = "ready"
    /\ button = "low"
    /\ served' = Append(served, presses)
    /\ reported' = "none"
    /\ pc' = "pressed"
    /\ UNCHANGED <<vk, pvk, prepares, proof, public_inputs, g_ic, pairings, result>>
    /\ UNCHANGED <<importerVars, calls, verified>>
    /\ UNCHANGED <<sample, button, presses, verifications>>

\* let (proof_data, public_inputs) = vk_proof::sample_proof();
DemoLoadSample ==
    /\ pc = "pressed"
    /\ proof' = sample.proof
    /\ public_inputs' = sample.public_inputs
    /\ pc' = "loaded"
    /\ UNCHANGED <<vk, pvk, prepares, g_ic, pairings, result>>
    /\ UNCHANGED otherVars

\* let result = groth16::verify_proof_prepared(&pvk, &proof, &public_inputs);
DemoVerify ==
    /\ pc = "loaded"
    /\ LET out == verify_proof_prepared(pvk, proof, public_inputs)
       IN /\ g_ic' = out.g_ic
          /\ pairings' = out.pairings
          /\ result' = out.result
    /\ verifications' = verifications + 1
    /\ pc' = "verified"
    /\ UNCHANGED <<vk, pvk, prepares, proof, public_inputs>>
    /\ UNCHANGED <<importerVars, calls, verified>>
    /\ UNCHANGED <<sample, button, presses, reported, served>>

\* A match whose two arms both print the success message.
DemoMatchBothSuccess ==
    /\ pc = "verified"
    /\ reported' = "success"
    /\ pc' = "blinked"
    /\ UNCHANGED <<vk, pvk, prepares, proof, public_inputs, g_ic, pairings, result>>
    /\ UNCHANGED <<importerVars, calls, verified>>
    /\ UNCHANGED <<sample, button, presses, verifications, served>>

\* match result { Ok(_) => fast blink, Err(_) => slow blink }
DemoMatch ==
    /\ pc = "verified"
    /\ reported' = IF result = "Ok" THEN "success" ELSE "failed"
    /\ pc' = "blinked"
    /\ UNCHANGED <<vk, pvk, prepares, proof, public_inputs, g_ic, pairings, result>>
    /\ UNCHANGED <<importerVars, calls, verified>>
    /\ UNCHANGED <<sample, button, presses, verifications, served>>

\* A loop that goes on without waiting for the release.
DemoWaitReleaseSkipped ==
    /\ pc = "blinked"
    /\ pc' = "debounce"
    /\ UNCHANGED <<vk, pvk, prepares, proof, public_inputs, g_ic, pairings, result>>
    /\ UNCHANGED otherVars

\* A loop that waits on the wrong level: while button.is_high() {}.
DemoWaitReleaseWrongLevel ==
    /\ pc = "blinked"
    /\ button = "low"
    /\ pc' = "debounce"
    /\ UNCHANGED <<vk, pvk, prepares, proof, public_inputs, g_ic, pairings, result>>
    /\ UNCHANGED otherVars

\* while button.is_low() {} is left: the pin reads high.
DemoWaitRelease ==
    /\ pc = "blinked"
    /\ button = "high"
    /\ pc' = "debounce"
    /\ UNCHANGED <<vk, pvk, prepares, proof, public_inputs, g_ic, pairings, result>>
    /\ UNCHANGED otherVars

\* delay_ms(200); the loop starts over.
DemoDebounce ==
    /\ pc = "debounce"
    /\ pc' = "ready"
    /\ UNCHANGED <<vk, pvk, prepares, proof, public_inputs, g_ic, pairings, result>>
    /\ UNCHANGED otherVars

NextDemo ==
    \/ Prepare
    \/ ButtonPress
    \/ ButtonRelease
    \/ DemoWaitPress
    \/ DemoLoadSample
    \/ DemoVerify
    \/ DemoMatch
    \/ DemoWaitRelease
    \/ DemoDebounce

----------------------------------------------------------------------------
\* The converter's output as the firmware loads it: key, proof and public
\* inputs of one set of documents, then one verification of that sample.

\* Longest IC array and longest public-signals array of the documents.
WireMaxIc == 3

WireMaxPublic == 2

\* The point at infinity of G2 as snarkjs writes it.
JsonG2Inf == << <<"0", "0">>, <<"1", "0">>, <<"0", "0">> >>

WireG1 == {<<"1", "2", "1">>, <<"1", QMinus2, "1">>}

WireG2 == {JsonG2Gen, JsonG2Inf}

WireDocuments ==
    [vk : [vk_alpha_1 : WireG1,
           vk_beta_2 : WireG2,
           vk_gamma_2 : WireG2,
           vk_delta_2 : WireG2,
           IC : UNION {[1 .. m -> WireG1 \cup {<<"0", "1", "0">>}] : m \in 1 .. WireMaxIc}],
     proof : [pi_a : WireG1,
              pi_b : WireG2,
              pi_c : WireG1],
     public : SeqsUpTo({"1", "2"}, WireMaxPublic)]

InitWire ==
    /\ json \in WireDocuments
    /\ generated = <<>>
    /\ point_json = <<>>
    /\ point_rust = <<>>
    /\ pc = "import"
    /\ vk = NoKey
    /\ pvk = NoPvk
    /\ prepares = 0
    /\ Idle
    /\ DemoOff
    /\ CallsOff

\* let (proof_data, public_inputs) = vk_proof::sample_proof();
\* let proof = groth16::Proof { a: proof_data.a, b: proof_data.b, c: proof_data.c };
LoadSample ==
    /\ pc = "ready"
    /\ proof = NoProof
    /\ proof' = sample_proof(generated).proof
    /\ public_inputs' = sample_proof(generated).public_inputs
    /\ pc' = "sample"
    /\ UNCHANGED <<vk, pvk, prepares, g_ic, pairings, result>>
    /\ UNCHANGED otherVars

\* groth16::verify_proof_prepared(&pvk, &proof, &public_inputs) on the sample.
VerifySample ==
    /\ pc = "sample"
    /\ LET out == verify_proof_prepared(pvk, proof, public_inputs)
       IN /\ g_ic' = out.g_ic
          /\ pairings' = out.pairings
          /\ result' = out.result
    /\ pc' = "done"
    /\ UNCHANGED <<vk, pvk, prepares, proof, public_inputs>>
    /\ UNCHANGED otherVars

NextWire == ConverterMain \/ LoadKey \/ Prepare \/ LoadSample \/ VerifySample

----------------------------------------------------------------------------
\* A caller that builds a proof and an input sequence, passes them by
\* reference to verify_proof_prepared, keeps the result and builds the next.

InitFrame ==
    /\ vk \in ConcKeys
    /\ pvk = NoPvk
    /\ prepares = 0
    /\ pc = "start"
    /\ Idle
    /\ ImporterOff
    /\ DemoOff
    /\ CallsOff

\* The caller's proof and public_inputs before the call.
LoadArgs ==
    /\ pc = "ready"
    /\ verified < MaxVerified
    /\ \E prf \in ConcProofs, inputs \in ConcInputs :
          /\ proof' = prf
          /\ public_inputs' = inputs
    /\ pc' = "args"
    /\ UNCHANGED <<vk, pvk, prepares, g_ic, pairings, result>>
    /\ UNCHANGED otherVars

\* A call that takes the inputs out of the caller's sequence as it reads them.
VerifyArgsDrained ==
    /\ pc = "args"
    /\ LET out == verify_proof_prepared(pvk, proof, public_inputs)
       IN /\ g_ic' = out.g_ic
          /\ pairings' = out.pairings
          /\ result' = out.result
    /\ public_inputs' = <<>>
    /\ verified' = verified + 1
    /\ pc' = "done"
    /\ UNCHANGED <<vk, pvk, prepares, proof>>
    /\ UNCHANGED <<importerVars, demoVars, calls>>

\* verify_proof_prepared(&pvk, &proof, &public_inputs): all three by shared
\* reference.
VerifyArgs ==
    /\ pc = "args"
    /\ LET out == verify_proof_prepared(pvk, proof, public_inputs)
       IN /\ g_ic' = out.g_ic
          /\ pairings' = out.pairings
          /\ result' = out.result
    /\ verified' = verified + 1
    /\ pc' = "done"
    /\ UNCHANGED <<vk, pvk, prepares, proof, public_inputs>>
    /\ UNCHANGED <<importerVars, demoVars, calls>>

\* The caller keeps what it passed and what it got, and drops the locals.
ReturnKept ==
    /\ pc = "done"
    /\ calls' = <<[proof |-> proof, public_inputs |-> public_inputs, result |-> result]>>
    /\ proof' = NoProof
    /\ public_inputs' = <<>>
    /\ g_ic' = NoPoint
    /\ pairings' = 0
    /\ result' = "none"
    /\ pc' = "ready"
    /\ UNCHANGED <<vk, pvk, prepares>>
    /\ UNCHANGED <<importerVars, demoVars, verified>>

NextFrame == Prepare \/ LoadArgs \/ VerifyArgs \/ ReturnKept

----------------------------------------------------------------------------
\* One call of verify_proof_prepared statement by statement: the length test
\* and the loop of aggregate_inputs, the three pairings, the product, the
\* comparison.  The frame of the call is held in calls.

\* Longest ic and longest input sequence of the stepped call.
StepMaxIc == 3

StepMaxInputs == 2

StepKeys ==
    [alpha_g1 : {G1(1)}, beta_g2 : {G2(1)}, gamma_g2 : {G2(1)}, delta_g2 : {G2(1)},
     ic : SeqsUpTo(G1Projective, StepMaxIc)]

NoFrame ==
    [stage |-> "none", i |-> 0, acc |-> NoPoint, steps |-> 0, pairs |-> <<>>,
     lhs |-> 0, compares |-> 0]

InitSteps ==
    /\ vk \in StepKeys
    /\ pvk = NoPvk
    /\ prepares = 0
    /\ pc = "start"
    /\ Idle
    /\ ImporterOff
    /\ DemoOff
    /\ calls = NoFrame
    /\ verified = 0

\* The call is entered and aggregate_inputs makes its length test:
\* if (public_inputs.len() + 1) != prep_vk.gamma_abc_g1.len() { return gamma_abc_g1[0] }
\* let mut g_ic = prep_vk.gamma_abc_g1[0].into_projective();
\* The index 0 of an empty gamma_abc_g1 panics, and the panic handler
\* (panic_rtt_target) never returns.
StepEnter ==
    /\ pc = "ready"
    /\ \E prf \in ConcProofs, inputs \in SeqsUpTo(Fr, StepMaxInputs) :
          /\ proof' = prf
          /\ public_inputs' = inputs
          /\ IF Len(pvk.gamma_abc_g1) = 0
             THEN /\ calls' = [NoFrame EXCEPT !.stage = "panicked"]
                  /\ g_ic' = NoPoint
                  /\ result' = "Panic"
                  /\ pc' = "halted"
             ELSE IF (Len(inputs) + 1) # Len(pvk.gamma_abc_g1)
             THEN /\ calls' = [NoFrame EXCEPT !.stage = "pair"]
                  /\ g_ic' = into_projective(pvk.gamma_abc_g1[1])
                  /\ result' = "none"
                  /\ pc' = "call"
             ELSE /\ calls' = [NoFrame EXCEPT
                                 !.stage = "loop",
                                 !.i = 1,
                                 !.acc = into_projective(pvk.gamma_abc_g1[1])]
                  /\ g_ic' = NoPoint
                  /\ result' = "none"
                  /\ pc' = "call"
    /\ UNCHANGED <<vk, pvk, prepares, pairings>>
    /\ UNCHANGED <<importerVars, demoVars, verified>>

\* g_ic.add_assign(&ic_point.mul(input.into_repr())); for the next pair of
\* the zip.
StepAccumulate ==
    /\ pc = "call"
    /\ calls.stage = "loop"
    /\ calls.i <= Len(public_inputs)
    /\ calls.i + 1 <= Len(pvk.gamma_abc_g1)
    /\ calls' = [calls EXCEPT
                   !.acc = add_assign(@, mul(pvk.gamma_abc_g1[calls.i + 1],
                                             public_inputs[calls.i])),
                   !.i = @ + 1,
                   !.steps = @ + 1]
    /\ UNCHANGED coreVars
    /\ UNCHANGED <<importerVars, demoVars, verified>>

\* The zip is exhausted; aggregate_inputs returns g_ic.
StepLoopEnd ==
    /\ pc = "call"
    /\ calls.stage = "loop"
    /\ calls.i > Len(public_inputs) \/ calls.i + 1 > Len(pvk.gamma_abc_g1)
    /\ g_ic' = calls.acc
    /\ calls' = [calls EXCEPT !.stage = "pair"]
    /\ UNCHANGED <<vk, pvk, prepares, proof, public_inputs, pairings, result, pc>>
    /\ UNCHANGED <<importerVars, demoVars, verified>>

\* The next of e_a_b, e_ic_gamma, e_c_delta.
StepPairing ==
    /\ pc = "call"
    /\ calls.stage = "pair"
    /\ Len(calls.pairs) < 3
    /\ LET n == Len(calls.pairs) + 1
           e == IF n = 1 THEN pairing(into_affine(proof.a), into_affine(proof.b))
                ELSE IF n = 2 THEN pairing(into_affine(g_ic), pvk.gamma_g2_neg)
                ELSE pairing(into_affine(proof.c), pvk.delta_g2_neg)
       IN calls' = [calls EXCEPT !.pairs = Append(@, e)]
    /\ pairings' = pairings + 1
    /\ UNCHANGED <<vk, pvk, prepares, proof, public_inputs, g_ic, result, pc>>
    /\ UNCHANGED <<importerVars, demoVars, verified>>

\* let mut lhs = e_a_b; lhs.mul_assign(&e_ic_gamma); lhs.mul_assign(&e_c_delta);
StepProduct ==
    /\ pc = "call"
    /\ calls.stage = "pair"
    /\ Len(calls.pairs) = 3
    /\ calls' = [calls EXCEPT
                   !.lhs = mul_assign(mul_assign(calls.pairs[1], calls.pairs[2]),
                                      calls.pairs[3]),
                   !.stage = "compare"]
    /\ UNCHANGED coreVars
    /\ UNCHANGED <<importerVars, demoVars, verified>>

\* if lhs == pvk.e_alpha_beta { Ok(()) } else { Err(()) }
StepCompare ==
    /\ pc = "call"
    /\ calls.stage = "compare"
    /\ result' = IF calls.lhs = pvk.e_alpha_beta THEN "Ok" ELSE "Err"
    /\ calls' = [calls EXCEPT !.compares = @ + 1, !.stage = "returned"]
    /\ pc' = "done"
    /\ UNCHANGED <<vk, pvk, prepares, proof, public_inputs, g_ic, pairings>>
    /\ UNCHANGED <<importerVars, demoVars, verified>>

\* The caller has the Result; the frame is gone.
StepReturn ==
    /\ pc = "done"
    /\ calls' = NoFrame
    /\ proof' = NoProof
    /\ public_inputs' = <<>>
    /\ g_ic' = NoPoint
    /\ pairings' = 0
    /\ result' = "none"
    /\ pc' = "ready"
    /\ UNCHANGED <<vk, pvk, prepares>>
    /\ UNCHANGED <<importerVars, demoVars, verified>>

NextSteps ==
    \/ Prepare
    \/ StepEnter
    \/ StepAccumulate
    \/ StepLoopEnd
    \/ StepPairing
    \/ StepProduct
    \/ StepCompare
    \/ StepReturn

Next == Prepare \/ VerifyProofPrepared \/ Return

NextAgg == Prepare \/ AggregateInputs \/ Return

NextPrep == Prepare \/ PrepareAgain

Spec == Init /\ [][Next]_vars

SpecAgg == InitAgg /\ [][NextAgg]_vars

SpecPrep == Init /\ [][NextPrep]_vars

SpecConvert == InitConvert /\ [][NextConvert]_vars

SpecVp == InitVp /\ [][NextVp]_vars

SpecConc == InitConc /\ [][NextConc]_vars

SpecDemo == InitDemo /\ [][NextDemo]_vars

SpecImport == InitImport /\ [][NextImport]_vars

\* The firmware runs on: each statement it has reached is executed, and its
\* two polling loops see every level that the pin takes.  Nothing is assumed
\* of the user.
SpecDemoFair ==
    /\ SpecDemo
    /\ WF_vars(Prepare)
    /\ SF_vars(DemoWaitPress)
    /\ WF_vars(DemoLoadSample)
    /\ WF_vars(DemoVerify)
    /\ WF_vars(DemoMatch)
    /\ SF_vars(DemoWaitRelease)
    /\ WF_vars(DemoDebounce)

SpecSteps == InitSteps /\ [][NextSteps]_vars

SpecFrame == InitFrame /\ [][NextFrame]_vars

SpecWire == InitWire /\ [][NextWire]_vars

----------------------------------------------------------------------------
\* The Groth16 equation and the aggregate as the design states them, written
\* on discrete logarithms and independently of the operators above.

CountMatches == Len(public_inputs) + 1 = Len(vk.ic)

NonIdentity(p) == p.k # 0

\* sum over i in 1 .. n of inputs[i] * ic[i + 1]
RECURSIVE WeightedSum(_, _, _)
WeightedSum(ic, inputs, n) ==
    IF n = 0 THEN 0 ELSE inputs[n] * ic[n + 1].k + WeightedSum(ic, inputs, n - 1)

\* ic[0] + sum_i inputs[i] * ic[i + 1]  (ic is 1-based here)
LinearCombination(ic, inputs) ==
    (ic[1].k + WeightedSum(ic, inputs, Len(inputs))) % Order

\* e(a,b) = e(alpha,beta) * e(gic,gamma) * e(c,delta) with the raw key
FourPairingEquation(key, prf, gic) ==
    (prf.a.k * prf.b.k) % Order =
        (key.alpha_g1.k * key.beta_g2.k + gic * key.gamma_g2.k
           + prf.c.k * key.delta_g2.k) % Order

\* e(a,b) * e(gic,gamma_neg) * e(c,delta_neg) = e_alpha_beta with the
\* prepared key
ThreePairingEquation(prep_vk, prf, gic) ==
    (prf.a.k * prf.b.k + gic * prep_vk.gamma_g2_neg.k
       + prf.c.k * prep_vk.delta_g2_neg.k) % Order = prep_vk.e_alpha_beta

----------------------------------------------------------------------------
\* C1: whenever verify_proof_prepared is called with inputs.len()+1 # ic.len()
\* it returns the PublicInputCountMismatch error and has computed no pairing.
C1_MismatchReturnsCountError ==
    (pc = "done" /\ ~CountMatches)
        => (result = "PublicInputCountMismatch" /\ pairings = 0)

\* C2: whenever aggregate_inputs is called with inputs.len()+1 # ic.len() it
\* signals PublicInputCountMismatch and returns no group element.
C2_AggregatorSignalsMismatch ==
    (pc = "aggregated" /\ ~CountMatches)
        => (result = "PublicInputCountMismatch" /\ g_ic = NoPoint)

\* C3: completeness: with a matching input count, a proof that satisfies
\* e(a,b) = e(alpha,beta) * e(ic[0] + sum_i inputs[i]*ic[i+1], gamma) * e(c,delta)
\* on the raw key is answered Ok by verify on the prepared key.
C3_Completeness ==
    (/\ pc = "done"
     /\ CountMatches
     /\ FourPairingEquation(vk, proof, LinearCombination(vk.ic, public_inputs)))
        => result = "Ok"

C3_Witness ==
    /\ pc = "done"
    /\ CountMatches
    /\ Len(public_inputs) = 1
    /\ public_inputs[1] # 0
    /\ NonIdentity(vk.ic[2])
    /\ NonIdentity(vk.gamma_g2)
    /\ NonIdentity(vk.delta_g2)
    /\ NonIdentity(proof.c)
    /\ NonIdentity(proof.a)
    /\ FourPairingEquation(vk, proof, LinearCombination(vk.ic, public_inputs))
    /\ result = "Ok"

\* The outcome of the finished call had one component of the proof been q.
WithA(q) == verify_proof_prepared(pvk, [proof EXCEPT !.a = q], public_inputs).result
WithB(q) == verify_proof_prepared(pvk, [proof EXCEPT !.b = q], public_inputs).result
WithC(q) == verify_proof_prepared(pvk, [proof EXCEPT !.c = q], public_inputs).result

\* C4 as claimed: after a call that returned Ok, the same call with exactly
\* one of proof.a, proof.b, proof.c replaced by any different point of its
\* group returns Err.
C4_AnyReplacementRejected ==
    (pc = "done" /\ result = "Ok")
        => /\ \A q \in G1Projective \ {proof.a} : WithA(q) = "Err"
           /\ \A q \in G2Projective \ {proof.b} : WithB(q) = "Err"
           /\ \A q \in G1Projective \ {proof.c} : WithC(q) = "Err"

\* C4 amended: after a call that returned Ok, replacing proof.a by a
\* different point returns Err exactly when proof.b is not the identity,
\* replacing proof.b returns Err exactly when proof.a is not the identity,
\* and replacing proof.c returns Err exactly when the key's delta is not the
\* identity; in the other cases the replaced proof is still answered Ok.
C4_ReplacementRejected ==
    (pc = "done" /\ result = "Ok")
        => /\ \A q \in G1Projective \ {proof.a} :
                WithA(q) = IF NonIdentity(proof.b) THEN "Err" ELSE "Ok"
           /\ \A q \in G2Projective \ {proof.b} :
                WithB(q) = IF NonIdentity(proof.a) THEN "Err" ELSE "Ok"
           /\ \A q \in G1Projective \ {proof.c} :
                WithC(q) = IF NonIdentity(vk.delta_g2) THEN "Err" ELSE "Ok"

C4_Witness ==
    /\ pc = "done"
    /\ result = "Ok"
    /\ CountMatches
    /\ Len(public_inputs) = 1
    /\ NonIdentity(proof.a)
    /\ NonIdentity(proof.b)
    /\ NonIdentity(proof.c)
    /\ NonIdentity(vk.delta_g2)
    /\ NonIdentity(vk.gamma_g2)

\* C5: with a matching input count, verify returns Ok exactly when
\* e(a,b) * e(g_ic,gamma_neg) * e(c,delta_neg) equals pvk.e_alpha_beta, g_ic
\* being what the aggregator returned, and returns Err otherwise.
C5_AcceptIffProductEqual ==
    (pc = "done" /\ CountMatches)
        => /\ g_ic = aggregate_inputs(pvk, public_inputs).value
           /\ result = IF ThreePairingEquation(pvk, proof, g_ic.k) THEN "Ok" ELSE "Err"

C5_Witness ==
    /\ pc = "done"
    /\ CountMatches
    /\ result = "Ok"
    /\ NonIdentity(g_ic)
    /\ NonIdentity(pvk.gamma_g2_neg)
    /\ NonIdentity(pvk.delta_g2_neg)
    /\ NonIdentity(proof.c)
    /\ pvk.e_alpha_beta # 0

\* C6: with a matching input count, verify on prepare(vk) returns Ok exactly
\* when e(a,b) = e(alpha,beta) * e(g_ic,gamma) * e(c,delta) holds with the
\* gamma and delta of the raw key.
C6_EquivalentToFourPairings ==
    (pc = "done" /\ CountMatches)
        => (result = "Ok" <=> FourPairingEquation(vk, proof, g_ic.k))

C6_Witness ==
    /\ pc = "done"
    /\ CountMatches
    /\ result = "Ok"
    /\ NonIdentity(g_ic)
    /\ NonIdentity(vk.gamma_g2)
    /\ NonIdentity(vk.delta_g2)
    /\ NonIdentity(proof.c)
    /\ NonIdentity(proof.a)
    /\ NonIdentity(proof.b)

\* C7: with inputs.len()+1 = ic.len() the aggregator returns the projective
\* point ic[0] + sum over i of inputs[i] * ic[i+1].
C7_AggregateIsLinearCombination ==
    (pc = "aggregated" /\ CountMatches)
        => /\ result = "Returned"
           /\ g_ic = G1(LinearCombination(pvk.gamma_abc_g1, public_inputs))

C7_Witness ==
    /\ pc = "aggregated"
    /\ CountMatches
    /\ Len(public_inputs) = 2
    /\ public_inputs[1] = 1
    /\ public_inputs[2] = 2
    /\ pvk.gamma_abc_g1[1].k = 1
    /\ pvk.gamma_abc_g1[2].k = 2
    /\ pvk.gamma_abc_g1[3].k = 1
    /\ g_ic = G1(2)

\* C8: once prepare has run, the prepared key holds alpha and beta of the key
\* in affine form, gamma_neg and delta_neg that add up to the identity with
\* the key's gamma and delta, the ic points in affine form, in the same
\* number and order, and e(alpha, beta).
C8_PreparedFields ==
    pc # "start"
        => /\ pvk.alpha_g1 = [g |-> "G1", form |-> "affine", k |-> vk.alpha_g1.k]
           /\ pvk.beta_g2 = [g |-> "G2", form |-> "affine", k |-> vk.beta_g2.k]
           /\ pvk.gamma_g2_neg.g = "G2" /\ pvk.gamma_g2_neg.form = "affine"
           /\ (pvk.gamma_g2_neg.k + vk.gamma_g2.k) % Order = 0
           /\ pvk.delta_g2_neg.g = "G2" /\ pvk.delta_g2_neg.form = "affine"
           /\ (pvk.delta_g2_neg.k + vk.delta_g2.k) % Order = 0
           /\ Len(pvk.gamma_abc_g1) = Len(vk.ic)
           /\ \A i \in 1 .. Len(vk.ic) :
                pvk.gamma_abc_g1[i] = [g |-> "G1", form |-> "affine", k |-> vk.ic[i].k]
           /\ pvk.e_alpha_beta = (vk.alpha_g1.k * vk.beta_g2.k) % Order

C8_Witness ==
    /\ pc = "ready"
    /\ Len(vk.ic) = 2
    /\ vk.ic[1].k = 1
    /\ vk.ic[2].k = 2
    /\ vk.alpha_g1.k = 1
    /\ vk.beta_g2.k = 2
    /\ vk.gamma_g2.k = 1
    /\ vk.delta_g2.k = 2
    /\ pvk.gamma_g2_neg.k = 2
    /\ pvk.delta_g2_neg.k = 1
    /\ pvk.e_alpha_beta = 2

\* C9: a call of prepare leaves the key unchanged, and a second or later call
\* on the same key returns a prepared key equal to the one returned before.
C9_PrepareTwiceEqual ==
    [][(pc \in {"start", "ready"} /\ prepares' = prepares + 1)
          => /\ vk' = vk
             /\ (prepares >= 1 => pvk' = pvk)]_vars

C9_Witness ==
    /\ prepares = 2
    /\ pc = "ready"
    /\ NonIdentity(vk.gamma_g2)
    /\ NonIdentity(vk.delta_g2)
    /\ Len(vk.ic) = 2
    /\ pvk.gamma_g2_neg = neg(into_affine(vk.gamma_g2))

\* The one-input scenario: ic = [P0, P1], inputs = [s].
OneInput == Len(vk.ic) = 2 /\ Len(public_inputs) = 1

\* The outcome of the finished call had the input been s + 1.
WithNextInput ==
    verify_proof_prepared(pvk, proof, <<(public_inputs[1] + 1) % Order>>).result

\* C10 as claimed: with ic = [P0, P1] and inputs = [s] the aggregate is
\* P0 + s*P1, a proof that satisfies the equation for it is answered Ok, and
\* the same proof with s + 1 in place of s is answered Err.
C10_PerturbedInputRejected ==
    (pc = "done" /\ OneInput)
        => /\ g_ic = G1((vk.ic[1].k + public_inputs[1] * vk.ic[2].k) % Order)
           /\ FourPairingEquation(vk, proof, g_ic.k) => result = "Ok"
           /\ result = "Ok" => WithNextInput = "Err"

\* C10 amended: as claimed, except that the proof with s + 1 in place of s
\* is answered Err exactly when neither P1 nor the key's gamma is the
\* identity, and is still answered Ok when one of them is.
C10_OneInputEndToEnd ==
    (pc = "done" /\ OneInput)
        => /\ g_ic = G1((vk.ic[1].k + public_inputs[1] * vk.ic[2].k) % Order)
           /\ FourPairingEquation(vk, proof, g_ic.k) => result = "Ok"
           /\ result = "Ok"
                => WithNextInput = IF NonIdentity(vk.ic[2]) /\ NonIdentity(vk.gamma_g2)
                                   THEN "Err" ELSE "Ok"

C10_Witness ==
    /\ pc = "done"
    /\ OneInput
    /\ public_inputs[1] = 2
    /\ NonIdentity(vk.ic[1])
    /\ NonIdentity(vk.ic[2])
    /\ NonIdentity(vk.gamma_g2)
    /\ NonIdentity(vk.delta_g2)
    /\ NonIdentity(proof.c)
    /\ FourPairingEquation(vk, proof, g_ic.k)
    /\ result = "Ok"
    /\ WithNextInput = "Err"

----------------------------------------------------------------------------
\* The weighted terms added onto acc from the last input down to the first.
RECURSIVE FoldRightToLeft(_, _, _, _)
FoldRightToLeft(acc, i, ic, inputs) ==
    IF i < 1
    THEN acc
    ELSE FoldRightToLeft(add_assign(acc, mul(ic[i + 1], inputs[i])), i - 1, ic, inputs)

\* C12: with a matching input count, adding the terms inputs[i]*ic[i+1] onto
\* ic[0] from the last to the first gives the point the aggregator returned.
C12_RightToLeftFoldEqual ==
    (pc = "aggregated" /\ CountMatches)
        => g_ic = FoldRightToLeft(into_projective(pvk.gamma_abc_g1[1]),
                                  Len(public_inputs), pvk.gamma_abc_g1, public_inputs)

C12_Witness ==
    /\ pc = "aggregated"
    /\ CountMatches
    /\ Len(public_inputs) = 2
    /\ public_inputs[1] = 2
    /\ public_inputs[2] = 1
    /\ pvk.gamma_abc_g1[1].k = 2
    /\ pvk.gamma_abc_g1[2].k = 1
    /\ pvk.gamma_abc_g1[3].k = 2
    /\ g_ic = G1(0)

----------------------------------------------------------------------------
\* Field elements and curve points among the strings of the model: the
\* decimal strings are field elements, and of the pairs of them only (1, 2)
\* and (1, q - 2) satisfy y^2 = x^3 + 3.
ValidFq(str) == str \in {"0", "1", "2", QMinus2}

OnCurveG1(x, y) == <<x, y>> \in {<<"1", "2">>, <<"1", QMinus2>>}

\* C13: for a JSON point [x, y, z], g1_to_rust emits the point at infinity
\* exactly when z is "0"; for every other z it emits the affine point of
\* (x, y), x from position 0 and y from position 1, the same for every such z.
C13_G1InfinityIffZZero ==
    (pc = "g1_done" /\ Len(point_json) = 3)
        => /\ point_rust = ZeroG1 <=> point_json[3] = "0"
           /\ point_json[3] # "0"
                => /\ point_rust.ctor = "G1Affine::new"
                   /\ point_rust.x = point_json[1]
                   /\ point_rust.y = point_json[2]
                   /\ \A z \in CoordStrings \ {"0"} :
                        g1_to_rust(<<point_json[1], point_json[2], z>>) = point_rust

C13_Witness ==
    /\ pc = "g1_done"
    /\ point_json = <<"1", QMinus2, "2">>
    /\ point_rust = AffineG1("1", QMinus2)

\* C14: for a JSON point of three pairs, g2_to_rust emits the point at
\* infinity exactly when both components of z are "0"; otherwise it emits the
\* affine point with x = (x_c0, x_c1) and y = (y_c0, y_c1) in the order given.
C14_G2InfinityIffBothZero ==
    (pc = "g2_done" /\ Len(point_json) = 3)
        => /\ point_rust = ZeroG2 <=> (point_json[3][1] = "0" /\ point_json[3][2] = "0")
           /\ ~(point_json[3][1] = "0" /\ point_json[3][2] = "0")
                => /\ point_rust.ctor = "G2Affine::new"
                   /\ point_rust.x[1] = point_json[1][1]
                   /\ point_rust.x[2] = point_json[1][2]
                   /\ point_rust.y[1] = point_json[2][1]
                   /\ point_rust.y[2] = point_json[2][2]

C14_Witness ==
    /\ pc = "g2_done"
    /\ point_json = << <<"1", "2">>, <<"2", "0">>, <<"0", "1">> >>
    /\ point_rust = AffineG2(<<"1", "2">>, <<"2", "0">>)

\* C15: a JSON G1 point in the affine encoding with a coordinate that is no
\* field element, or with (x, y) off the curve, is rejected by the converter:
\* no affine point expression is emitted for it.
C15_MalformedPointRejected ==
    (/\ pc = "g1_done"
     /\ Len(point_json) = 3
     /\ point_json[3] # "0"
     /\ \/ ~ValidFq(point_json[1])
        \/ ~ValidFq(point_json[2])
        \/ ~OnCurveG1(point_json[1], point_json[2]))
        => point_rust.ctor # "G1Affine::new"

----------------------------------------------------------------------------
\* ic[0] + sum of inputs[i] * ic[i + 1] with entry skip of ic (1-based) left
\* out of the sum.
RECURSIVE SumWithout(_, _, _, _)
SumWithout(ic, inputs, n, skip) ==
    IF n = 0
    THEN 0
    ELSE (IF n = skip THEN 0
          ELSE IF n = 1 THEN ic[1].k
          ELSE inputs[n - 1] * ic[n].k)
         + SumWithout(ic, inputs, n - 1, skip)

\* The finished aggregation had input i been w.
WithWeight(i, w) ==
    aggregate_inputs(pvk, [public_inputs EXCEPT ![i] = w]).value

\* C11: an ic entry that the converter wrote for an IC point with z = "0" is
\* the identity of G1, and the aggregate is the sum of the other terms
\* whatever input is weighted with that entry.
C11_InfinityEntryAggregatesAsIdentity ==
    (pc = "aggregated" /\ CountMatches)
        => \A n \in 1 .. Len(json.vk.IC) :
              json.vk.IC[n][3] = "0"
                 => /\ vk.ic[n] = G1(0)
                    /\ g_ic = G1(SumWithout(vk.ic, public_inputs, Len(vk.ic), n) % Order)
                    /\ n > 1 => \A w \in Fr : WithWeight(n - 1, w) = g_ic

C11_Witness ==
    /\ pc = "aggregated"
    /\ CountMatches
    /\ json.vk.IC = << <<"1", QMinus2, "1">>, <<"0", "1", "0">>, <<"1", "2", "1">> >>
    /\ public_inputs = <<2, 1>>
    /\ g_ic = G1(0)

----------------------------------------------------------------------------
\* C20: a call of verify_proof on the key returns what verify_proof_prepared
\* returns for the same proof and inputs on the prepared key made from that
\* key earlier, however many calls of verify_proof_prepared that prepared key
\* has served since.
C20_VerifyProofAgreesWithPrepared ==
    pc = "done_unprepared"
        => result = verify_proof_prepared(pvk, proof, public_inputs).result

C20_Witness ==
    /\ pc = "done_unprepared"
    /\ verified = MaxVerified
    /\ result = "Ok"
    /\ CountMatches
    /\ Len(public_inputs) = 1
    /\ public_inputs[1] # 0
    /\ NonIdentity(vk.ic[1])
    /\ NonIdentity(vk.ic[2])
    /\ NonIdentity(vk.gamma_g2)
    /\ NonIdentity(vk.delta_g2)
    /\ NonIdentity(proof.c)

----------------------------------------------------------------------------
\* Every finished call holds the result of the same call run alone.
AsRunAlone ==
    \A c \in Callers :
        calls[c].stage = "done"
            => calls[c].result =
                 verify_proof_prepared(prepare(vk), calls[c].proof,
                                       calls[c].public_inputs).result

\* C16: once prepared, the prepared key is never changed by a step of any
\* call, and every call that finishes, whatever steps of other calls ran in
\* between, has the result it has when run alone.
C16_SharedKeyInterleaving ==
    /\ [](pc = "ready" => AsRunAlone)
    /\ [][pc = "ready" => pvk' = pvk]_vars

C16_Witness ==
    /\ pc = "ready"
    /\ calls[1].stage = "done"
    /\ calls[1].result = "Ok"
    /\ calls[1].public_inputs = <<1>>
    /\ calls[2].stage = "paired"
    /\ calls[2].public_inputs = <<2>>
    /\ calls[2].proof.b # calls[1].proof.b
    /\ NonIdentity(vk.ic[1])
    /\ NonIdentity(vk.ic[2])

----------------------------------------------------------------------------
\* C17: when the equality of the pairing product with e_alpha_beta fails,
\* verify_proof_prepared returns Err, the demo takes the Err arm of its match
\* and does not report success; the Ok arm is taken only on Ok.
C17_FailureNeverMasked ==
    /\ pc \in {"verified", "blinked", "debounce"}
         => (~ThreePairingEquation(pvk, proof, g_ic.k) => result = "Err")
    /\ pc \in {"blinked", "debounce"}
         => /\ result = "Err" => reported = "failed"
            /\ reported = "success" => result = "Ok"
            /\ reported \in {"success", "failed"}

C17_Witness ==
    /\ pc = "blinked"
    /\ result = "Err"
    /\ reported = "failed"
    /\ Len(public_inputs) + 1 = Len(vk.ic)
    /\ ~ThreePairingEquation(pvk, proof, g_ic.k)

\* C19 as stated: when the firmware waits with the button released, every
\* press made so far has led to exactly one verification.
C19_EachPressOneVerification ==
    (pc = "ready" /\ button = "high") => verifications = presses

\* C19: the key is prepared exactly once and before the first verification,
\* every verification uses that prepared key and the one sample proof, each
\* press seen by the wait loop leads to exactly one verification, and no
\* press leads to more than one.
C19_PrepareOnceVerifyMany ==
    /\ verifications > 0 => pc # "start"
    /\ pc # "start" => (prepares = 1 /\ pvk = prepare(vk))
    /\ \A i, j \in 1 .. Len(served) : i < j => served[i] < served[j]
    /\ \A i \in 1 .. Len(served) : served[i] \in 1 .. presses
    /\ verifications = IF pc \in {"pressed", "loaded"}
                       THEN Len(served) - 1
                       ELSE Len(served)
    /\ pc \in {"verified", "blinked", "debounce"}
         => /\ proof = sample.proof
            /\ public_inputs = sample.public_inputs
            /\ result = verify_proof_prepared(prepare(vk), sample.proof,
                                              sample.public_inputs).result

C19_Witness ==
    /\ pc = "ready"
    /\ button = "high"
    /\ verifications = 2
    /\ served = <<1, 3>>
    /\ presses = 3
    /\ prepares = 1

----------------------------------------------------------------------------
\* The group elements and scalars that the documents of snarkjs denote.
SourceG1(p) ==
    IF p[3] = "0" THEN G1(0)
    ELSE IF p[1] = "1" /\ p[2] = "2" THEN G1(1)
    ELSE G1(Order - 1)

SourceG2(p) == IF p[3] = <<"0", "0">> THEN G2(0) ELSE G2(1)

SourceFr(x) == IF x = "1" THEN 1 % Order ELSE 2 % Order

SourceIc == [i \in 1 .. Len(json.vk.IC) |-> SourceG1(json.vk.IC[i])]

SourcePublic == [j \in 1 .. Len(json.public) |-> SourceFr(json.public[j])]

\* C21: the key the firmware loads has the i-th IC point of the key document
\* as ic[i] and alpha, beta, gamma, delta in their own fields, the sample has
\* pi_a, pi_b, pi_c as a, b, c and the j-th public signal as inputs[j], and
\* the aggregate of a matching count pairs ic[i+1] with inputs[i] as the
\* documents do.
C21_ImporterPreservesSlots ==
    /\ pc \in {"start", "ready", "sample", "done"}
         => /\ vk.alpha_g1 = SourceG1(json.vk.vk_alpha_1)
            /\ vk.beta_g2 = SourceG2(json.vk.vk_beta_2)
            /\ vk.gamma_g2 = SourceG2(json.vk.vk_gamma_2)
            /\ vk.delta_g2 = SourceG2(json.vk.vk_delta_2)
            /\ vk.ic = SourceIc
    /\ pc \in {"sample", "done"}
         => /\ proof.a = SourceG1(json.proof.pi_a)
            /\ proof.b = SourceG2(json.proof.pi_b)
            /\ proof.c = SourceG1(json.proof.pi_c)
            /\ public_inputs = SourcePublic
    /\ (pc = "done" /\ CountMatches)
         => g_ic = G1(LinearCombination(SourceIc, SourcePublic))

C21_Witness ==
    /\ pc = "done"
    /\ json.vk.IC = << <<"1", "2", "1">>, <<"1", QMinus2, "1">>, <<"1", "2", "1">> >>
    /\ json.public = <<"1", "2">>
    /\ json.vk.vk_gamma_2 # json.vk.vk_delta_2
    /\ json.proof.pi_a # json.proof.pi_c
    /\ vk.ic = <<G1(1), G1(Order - 1), G1(1)>>
    /\ public_inputs = <<1, 2>>
    /\ g_ic = G1(2)

----------------------------------------------------------------------------
\* C22: the key and the public inputs of every file the converter writes
\* satisfy inputs.len() = ic.len() - 1, whatever the lengths of the IC array
\* and of the public-signals array of the documents.
C22_EmittedCountsMatch ==
    pc # "import" => Len(generated.public_inputs) = Len(generated.ic) - 1

----------------------------------------------------------------------------
\* C23: when inputs.len()+1 # ic.len(), aggregate_inputs returns the identity
\* element of G1.
C23_MismatchReturnsIdentity ==
    (pc = "aggregated" /\ ~CountMatches)
        => (result = "Returned" /\ g_ic = G1(0))

----------------------------------------------------------------------------
\* C24: for a prepared key with a non-empty ic, verify never returns Ok when
\* inputs.len()+1 # ic.len(), with too few inputs as with too many.
C24_MismatchNeverAccepted ==
    (pc = "done" /\ ~CountMatches /\ Len(vk.ic) > 0) => result # "Ok"

----------------------------------------------------------------------------
\* C25: verify_proof_prepared returns Ok or Err for every prepared key, proof
\* and input sequence, a prepared key with an empty ic included: it does not
\* abort on an index outside ic.
C25_VerifyNeverAborts ==
    pc = "done" => result \in {"Ok", "Err"}

----------------------------------------------------------------------------
\* C26: after any sequence of verify calls the prepared key is the value
\* prepare returned, a call leaves the proof and the inputs passed to it as
\* they were, and the result of a call is that of its proof and inputs alone:
\* the same as the call before it gave for the same proof and inputs.
C26_CallChangesOnlyItsResult ==
    /\ [](pc \in {"ready", "args", "done"} => pvk = prepare(vk))
    /\ [](pc = "done"
            => /\ result = verify_proof_prepared(prepare(vk), proof, public_inputs).result
               /\ (/\ Len(calls) = 1
                   /\ calls[1].proof = proof
                   /\ calls[1].public_inputs = public_inputs)
                      => calls[1].result = result)
    /\ [][pc = "args" => (/\ proof' = proof
                          /\ public_inputs' = public_inputs
                          /\ pvk' = pvk)]_vars

C26_Witness ==
    /\ pc = "done"
    /\ verified = MaxVerified
    /\ Len(calls) = 1
    /\ calls[1].result = "Err"
    /\ calls[1].proof # proof
    /\ result = "Ok"
    /\ Len(public_inputs) = 1
    /\ public_inputs[1] # 0
    /\ NonIdentity(vk.ic[2])

----------------------------------------------------------------------------
\* The outcome of the finished call had inputs[i] been w.
WithInput(i, w) ==
    verify_proof_prepared(pvk, proof, [public_inputs EXCEPT ![i] = w]).result

\* C27 as claimed: for a key and a proof accepted with inputs x, changing any
\* single inputs[i] to a different scalar makes verify reject.
C27_AnyChangedInputRejected ==
    (pc = "done" /\ CountMatches /\ result = "Ok")
        => \A i \in 1 .. Len(public_inputs) :
              \A w \in Fr \ {public_inputs[i]} : WithInput(i, w) = "Err"

\* C27 amended: for a key and a proof accepted with inputs x, changing a
\* single inputs[i] to a different scalar makes verify reject when neither
\* ic[i+1] nor the key's gamma is the identity; when ic[i+1] is the identity
\* the outcome, Ok or Err, is the same for every value of inputs[i].
C27_OutcomeDependsOnWeightedInputs ==
    (pc = "done" /\ CountMatches)
        => \A i \in 1 .. Len(public_inputs) :
              \A w \in Fr \ {public_inputs[i]} :
                 /\ (/\ result = "Ok"
                     /\ NonIdentity(vk.ic[i + 1])
                     /\ NonIdentity(vk.gamma_g2)) => WithInput(i, w) = "Err"
                 /\ ~NonIdentity(vk.ic[i + 1]) => WithInput(i, w) = result

C27_Witness ==
    /\ pc = "done"
    /\ result = "Ok"
    /\ Len(public_inputs) = 2
    /\ Len(vk.ic) = 3
    /\ NonIdentity(vk.ic[2])
    /\ ~NonIdentity(vk.ic[3])
    /\ NonIdentity(vk.gamma_g2)
    /\ \A w \in Fr \ {public_inputs[1]} : WithInput(1, w) = "Err"
    /\ \A w \in Fr : WithInput(2, w) = "Ok"

----------------------------------------------------------------------------
\* The proof (-a, -b, c).
NegatedAB(prf) ==
    [a |-> into_projective(neg(into_affine(prf.a))),
     b |-> into_projective(neg(into_affine(prf.b))),
     c |-> prf.c]

\* C28: verify on (-a, -b, c) returns what verify on (a, b, c) returned, and
\* when the result is Ok and neither a nor b is the identity, (-a, -b, c) is
\* a different proof that is accepted for the same inputs.
C28_NegatedABSameOutcome ==
    pc = "done"
        => /\ verify_proof_prepared(pvk, NegatedAB(proof), public_inputs).result = result
           /\ (result = "Ok" /\ NonIdentity(proof.a) /\ NonIdentity(proof.b))
                 => NegatedAB(proof) # proof

C28_Witness ==
    /\ pc = "done"
    /\ result = "Ok"
    /\ CountMatches
    /\ NonIdentity(proof.a)
    /\ NonIdentity(proof.b)
    /\ NonIdentity(vk.gamma_g2)
    /\ NonIdentity(g_ic)
    /\ NegatedAB(proof).a # proof.a
    /\ verify_proof_prepared(pvk, NegatedAB(proof), public_inputs).result = "Ok"

----------------------------------------------------------------------------
\* C29: every call of verify_proof_prepared comes to its end by returning:
\* its aggregation loop has made exactly inputs.len() accumulate steps when
\* the count matches and none when it does not, never more on the way, and
\* exactly three pairings and one equality test have given the result.
C29_EveryCallRunsToCompletion ==
    /\ calls.stage # "panicked"
    /\ pc \in {"call", "done"}
         => /\ calls.steps <= Len(public_inputs)
            /\ pairings <= 3
    /\ pc = "done"
         => /\ calls.stage = "returned"
            /\ calls.steps = IF CountMatches THEN Len(public_inputs) ELSE 0
            /\ pairings = 3
            /\ calls.compares = 1
            /\ result \in {"Ok", "Err"}

----------------------------------------------------------------------------
\* The verifications that press number n has started.
StartedBy(n) == {i \in 1 .. Len(served) : served[i] = n}

\* C30 as stated: when the demo waits with the button released, every press
\* made so far, each one continuous, has started exactly one verification.
C30_EveryPressExactlyOne ==
    (pc = "ready" /\ button = "high")
        => \A n \in 1 .. presses : Cardinality(StartedBy(n)) = 1

\* C30: the demo leaves its wait loop, and so starts a verification, only on
\* a press made after the one that started the verification before, so that
\* no press starts two; and if the button is released again and again, every
\* press seen by the wait loop is followed by the demo waiting again with one
\* more verification made and the prepared key as prepare returned it.
C30_OnePressOneVerification ==
    /\ [][(pc = "ready" /\ pc' = "pressed")
             => (/\ button = "low"
                 /\ \A n \in 1 .. Len(served) : served[n] < presses
                 /\ verifications' = verifications
                 /\ pvk' = pvk)]_vars
    /\ [](verifications <= presses)
    /\ ([]<>(button = "high"))
          => \A n \in 0 .. MaxPresses :
                (pc = "ready" /\ button = "low" /\ verifications = n)
                   ~> (pc = "ready" /\ verifications = n + 1 /\ pvk = prepare(vk))

C30_Witness ==
    /\ pc = "ready"
    /\ button = "low"
    /\ presses = 3
    /\ verifications = 2
    /\ served = <<1, 2>>
    /\ pvk = prepare(vk)

====
